---- MODULE Spec2Model ----
(***************************************************************************)
(* Model of src/lib/firefox-downloader.mjs: downloadFirefox (cache check,  *)
(* fetch, extract, locate, version probe, cache write), extractDmg,        *)
(* findFirefoxBinary and getFirefoxVersion, over an abstract file system.  *)
(*                                                                         *)
(* A string is modelled as a sequence of tokens (<<"Foo", ".app">> is the  *)
(* name "Foo.app"), so that endsWith, basename and split('?') are computed *)
(* rather than assumed.  A directory is the sequence of its entries in     *)
(* readdir order, which the platform does not specify: every order is a    *)
(* different input.                                                        *)
(***************************************************************************)
EXTENDS Integers, Sequences, FiniteSets, TLC

\* Fields of an invocation (inv[p]) beyond the code's locals: log, the steps
\* it has run; before, dirBefore, mountsBefore, the cache file, extraction
\* directory and mounts found when it was called; response, what the server
\* answered; body, the body it downloaded; attached, whether its hdiutil
\* attach succeeded; probed, what the version probe gave.

VARIABLES
    platform,   \* process.platform: "darwin", "linux" or "win32"
    cacheFile,  \* per urlHash: content of <cacheDir>/<urlHash>.json
    downloads,  \* per archive name: content of <cacheDir>/<archiveName>
    extracted,  \* per urlHash: <cacheDir>/firefox-<urlHash>, Absent or a listing
    mounted,    \* disk images currently attached (hdiutil attach without detach)
    inv,        \* per caller: the running downloadFirefox invocation
    calls,      \* invocations started so far
    loc         \* the locator's input and output, for the locator specification

vars == <<platform, cacheFile, downloads, extracted, mounted, inv, calls, loc>>

----------------------------------------------------------------------------
(* Bounds *)

MaxCalls == 2
MaxTop == 2
MaxMacOS == 2

----------------------------------------------------------------------------
(* Names, entries and listings *)

File(n) == [name |-> n, kind |-> "file", kids |-> <<>>]
Dir(n, k) == [name |-> n, kind |-> "dir", kids |-> k]

NotFound == <<>>

\* a directory that may not exist: NoDir, or SomeDir(listing)
NoDir == [ok |-> FALSE, list |-> <<>>]
SomeDir(listing) == [ok |-> TRUE, list |-> listing]

EndsWith(name, suffix) == Len(name) > 0 /\ name[Len(name)] = suffix

Min(S) == CHOOSE x \in S : \A y \in S : x <= y

\* index of the entry called n in a listing, 0 when there is none
IndexOf(listing, n) ==
    LET hits == {i \in 1..Len(listing) : listing[i].name = n}
    IN  IF hits = {} THEN 0 ELSE Min(hits)

RECURSIVE Exists(_, _)
\* existsSync(join(dir, path...)) where listing is dir's content
Exists(listing, path) ==
    IF path = <<>> THEN TRUE
    ELSE LET i == IndexOf(listing, Head(path))
         IN  /\ i # 0
             /\ \/ Len(path) = 1
                \/ /\ listing[i].kind = "dir"
                   /\ Exists(listing[i].kids, Tail(path))

RECURSIVE ReadDir(_, _)
\* readdir(join(dir, path...)): the listing, or NoDir when it throws (ENOENT,
\* ENOTDIR)
ReadDir(listing, path) ==
    IF path = <<>> THEN SomeDir(listing)
    ELSE LET i == IndexOf(listing, Head(path))
         IN  IF i = 0 \/ listing[i].kind # "dir" THEN NoDir
             ELSE ReadDir(listing[i].kids, Tail(path))

----------------------------------------------------------------------------
(* findFirefoxBinary *)

AppSuffix == ".app"

ExecutableNames ==
    << <<"firefox">>, <<"firefox-bin">>, <<"Firefox Nightly">>,
       <<"Firefox Developer Edition">>, <<"Firefox">> >>

MacOSDir(bundleName) == <<bundleName, <<"Contents">>, <<"MacOS">>>>

\* mutant of BundleExecutable: the known names are not tried, the first
\* regular file is taken
BundleExecutableFirstFile(listing, bundleName) ==
    LET macOSEntries == ReadDir(listing, MacOSDir(bundleName))
        files == {i \in 1..Len(macOSEntries.list) :
                     macOSEntries.list[i].kind = "file"}
    IN  IF macOSEntries.ok /\ files # {}
        THEN Append(MacOSDir(bundleName), macOSEntries.list[Min(files)].name)
        ELSE NotFound

\* body of the loop over appBundles for one bundle: the executable found in
\* it, or NotFound
BundleExecutable(listing, bundleName) ==
    LET macOSDir == MacOSDir(bundleName)
        known == {i \in 1..Len(ExecutableNames) :
                     Exists(listing, Append(macOSDir, ExecutableNames[i]))}
        macOSEntries == ReadDir(listing, macOSDir)
        files == {i \in 1..Len(macOSEntries.list) :
                     macOSEntries.list[i].kind = "file"}
    IN  IF ~Exists(listing, macOSDir) THEN NotFound
        ELSE IF known # {} THEN Append(macOSDir, ExecutableNames[Min(known)])
        ELSE IF macOSEntries.ok /\ files # {}
             THEN Append(macOSDir, macOSEntries.list[Min(files)].name)
        ELSE NotFound

IsAppBundle(entry) == entry.kind = "dir" /\ EndsWith(entry.name, AppSuffix)

\* mutant of LinuxPaths: the two paths in the other order
LinuxPathsBinFirst ==
    << <<<<"firefox">>, <<"firefox-bin">>>>, <<<<"firefox">>, <<"firefox">>>> >>

LinuxPaths ==
    << <<<<"firefox">>, <<"firefox">>>>, <<<<"firefox">>, <<"firefox-bin">>>> >>

RECURSIVE Find(_, _)
\* findFirefoxBinary(extractDir) where listing is extractDir's content: the
\* path found, relative to extractDir, or NotFound (null)
Find(plat, listing) ==
    LET bundleHits == {i \in 1..Len(listing) :
                          /\ IsAppBundle(listing[i])
                          /\ BundleExecutable(listing, listing[i].name) # NotFound}
        nestedHits == {i \in 1..Len(listing) :
                          /\ listing[i].kind = "dir"
                          /\ ~EndsWith(listing[i].name, AppSuffix)
                          /\ Find(plat, listing[i].kids) # NotFound}
        linuxHits == {i \in 1..Len(LinuxPaths) : Exists(listing, LinuxPaths[i])}
        fallbackHits == {i \in 1..Len(listing) :
                          /\ listing[i].kind = "dir"
                          /\ Find(plat, listing[i].kids) # NotFound}
        Under(i) == <<listing[i].name>> \o Find(plat, listing[i].kids)
    IN  IF plat = "darwin" /\ bundleHits # {}
          THEN BundleExecutable(listing, listing[Min(bundleHits)].name)
        ELSE IF plat = "darwin" /\ nestedHits # {}
          THEN Under(Min(nestedHits))
        ELSE IF plat = "linux" /\ linuxHits # {}
          THEN LinuxPaths[Min(linuxHits)]
        ELSE IF fallbackHits # {}
          THEN Under(Min(fallbackHits))
        ELSE NotFound

\* findFirefoxBinary on a directory that may be missing: every readdir then
\* throws and is caught, every existsSync is false
findFirefoxBinary(plat, dir) ==
    IF dir.ok THEN Find(plat, dir.list) ELSE NotFound

----------------------------------------------------------------------------
(* URLs, the cache key and the archive name *)

Max(S) == CHOOSE x \in S : \A y \in S : x >= y

Urls ==
    << <<"https:", "/", "/", "host", "/", "firefox", ".tar.bz2">>,
       <<"https:", "/", "/", "host", "/", "firefox", ".tar.gz", "?", "token">>,
       <<"https:", "/", "/", "host", "/", "target", ".dmg">>,
       <<"https:", "/", "/", "host", "/", "firefox", ".zip">> >>

\* createHash('md5').update(url).digest('hex'): a function of the whole URL,
\* taken to be free of collisions on Urls
urlHash(url) == CHOOSE i \in 1..Len(Urls) : Urls[i] = url

Hashes == 1..Len(Urls)

RECURSIVE StripSlashes(_)
StripSlashes(s) ==
    IF s # <<>> /\ s[Len(s)] = "/" THEN StripSlashes(SubSeq(s, 1, Len(s) - 1))
    ELSE s

\* path.basename(url)
basename(s) ==
    LET t == StripSlashes(s)
        slashes == {i \in 1..Len(t) : t[i] = "/"}
    IN  IF slashes = {} THEN t ELSE SubSeq(t, Max(slashes) + 1, Len(t))

\* s.split('?')[0]
BeforeQuery(s) ==
    LET marks == {i \in 1..Len(s) : s[i] = "?"}
    IN  IF marks = {} THEN s ELSE SubSeq(s, 1, Min(marks) - 1)

archiveName(url) == BeforeQuery(basename(url))

ArchiveNames == {archiveName(Urls[i]) : i \in 1..Len(Urls)}

IsTarball(name) == EndsWith(name, ".tar.bz2") \/ EndsWith(name, ".tar.gz")
IsDmg(name) == EndsWith(name, ".dmg")

\* mutant of ExtractBranch: the last branch taken for every other suffix
ExtractBranchNoElse(name) ==
    IF IsTarball(name) THEN "tar" ELSE "dmg"

\* the branch of the extraction dispatch taken for a download path
ExtractBranch(name) ==
    IF IsTarball(name) THEN "tar"
    ELSE IF IsDmg(name) THEN "dmg"
    ELSE "unsupported"

----------------------------------------------------------------------------
(* What a server can answer: archive bodies *)

FlatTree == <<Dir(<<"firefox">>, <<File(<<"firefox">>)>>)>>
BundleOf(n, macOS) ==
    Dir(n, <<Dir(<<"Contents">>, <<Dir(<<"MacOS">>, macOS)>>)>>)
FooApp == BundleOf(<<"Foo", ".app">>, <<File(<<"firefox-bin">>)>>)

\* kind "tar": list is what tar.extract writes, ok whether it then resolves
\* (a truncated archive writes a prefix and rejects)
\* kind "dmg": attach is hdiutil attach's stdout, one token sequence per line
\* (<<>> when the command fails), list the content of the mounted volume
\* kind "junk": neither (an error page served with status 200)
Bodies ==
    << [kind |-> "tar", ok |-> TRUE, list |-> FlatTree, attach |-> <<>>],
       [kind |-> "tar", ok |-> TRUE, list |-> <<FooApp>>, attach |-> <<>>],
       [kind |-> "tar", ok |-> TRUE, list |-> <<File(<<"README">>)>>,
        attach |-> <<>>],
       [kind |-> "tar", ok |-> FALSE,
        list |-> <<Dir(<<"firefox">>, <<File(<<"libxul", ".so">>)>>)>>,
        attach |-> <<>>],
       [kind |-> "dmg", ok |-> TRUE,
        list |-> <<File(<<".background">>), FooApp>>,
        attach |-> << <<"/dev/disk4", "GUID_partition_scheme">>,
                      <<"/dev/disk4s1", "Apple_HFS", "/Volumes/", "Firefox">> >>],
       [kind |-> "dmg", ok |-> TRUE, list |-> <<File(<<"README">>)>>,
        attach |-> << <<"/dev/disk4s1", "Apple_HFS", "/Volumes/", "Docs">> >>],
       [kind |-> "dmg", ok |-> TRUE, list |-> <<FooApp>>,
        attach |-> << <<"/dev/disk4", "GUID_partition_scheme">> >>],
       [kind |-> "dmg", ok |-> FALSE, list |-> <<>>, attach |-> <<>>],
       [kind |-> "junk", ok |-> FALSE, list |-> <<>>, attach |-> <<>>] >>

NoBody == 0
PartialBody == Len(Bodies)      \* a truncated download reads as junk

\* the bodies a URL is served with: archives of the kind its name announces,
\* or junk
Served(url) ==
    {b \in 1..Len(Bodies) :
        \/ Bodies[b].kind = "junk"
        \/ Bodies[b].kind = ExtractBranch(archiveName(url))}

----------------------------------------------------------------------------
(* Writing into a directory *)

RECURSIVE Merge(_, _)
\* the listing after writing the entries of add into a directory holding
\* listing (tar.extract into cwd, cp -R into a directory): an entry of the
\* same name is merged when both are directories and replaced otherwise, a
\* new entry is added
Merge(listing, add) ==
    IF add = <<>> THEN listing
    ELSE LET e == Head(add)
             i == IndexOf(listing, e.name)
             merged ==
                 IF i = 0 THEN Append(listing, e)
                 ELSE IF listing[i].kind = "dir" /\ e.kind = "dir"
                   THEN [listing EXCEPT ![i].kids = Merge(listing[i].kids, e.kids)]
                 ELSE [listing EXCEPT ![i] = e]
         IN  Merge(merged, Tail(add))

----------------------------------------------------------------------------
(* The cache file *)

\* an absolute path below the cache directory: join(cacheDir,
\* 'firefox-' + hash, rel...)
PathIn(h, rel) == [dir |-> h, rel |-> rel]
NoPath == PathIn(0, <<>>)
NoEntry == [binaryPath |-> NoPath, version |-> "", extractPath |-> NoPath]

\* file contents: no file, text that JSON.parse rejects, the text "{}", or
\* the text JSON.stringify gave for an entry
NoFile == [state |-> "absent", entry |-> NoEntry]
Garbage == [state |-> "garbage", entry |-> NoEntry]
EmptyObject == [state |-> "emptyObject", entry |-> NoEntry]
Stringify(entry) == [state |-> "json", entry |-> entry]

\* existsSync of an absolute path, in the extraction directories dirs
PathExists(dirs, path) ==
    /\ path.dir \in DOMAIN dirs
    /\ dirs[path.dir].ok
    /\ Exists(dirs[path.dir].list, path.rel)

\* mutants of CacheHit: the force flag tested the wrong way round, the force
\* flag not tested, the binary not tested
CacheHitForceInverted(forceDownload, file, dirs) ==
    /\ forceDownload
    /\ file.state = "json"
    /\ PathExists(dirs, file.entry.binaryPath)

CacheHitIgnoresForce(forceDownload, file, dirs) ==
    /\ file.state = "json"
    /\ PathExists(dirs, file.entry.binaryPath)

CacheHitNoExistsCheck(forceDownload, file, dirs) ==
    /\ ~forceDownload
    /\ file.state = "json"

\* lines 32-42: whether the cached entry is returned. A file that does not
\* parse throws inside the try; "{}" parses and has no binaryPath, and
\* existsSync(undefined) is false
CacheHit(forceDownload, file, dirs) ==
    /\ ~forceDownload
    /\ file.state # "absent"
    /\ file.state = "json"
    /\ PathExists(dirs, file.entry.binaryPath)

----------------------------------------------------------------------------
(* hdiutil attach output and the volume listing *)

\* attachOutput.match(/\/Volumes\/.+$/m): the first line holding "/Volumes/"
\* followed by at least one character, from there to the end of the line;
\* <<>> when no line matches
MountMatch(attachOutput) ==
    LET At(line) == {i \in 1..(Len(line) - 1) : line[i] = "/Volumes/"}
        lines == {k \in 1..Len(attachOutput) : At(attachOutput[k]) # {}}
    IN  IF lines = {} THEN <<>>
        ELSE LET line == attachOutput[Min(lines)]
             IN  SubSeq(line, Min(At(line)), Len(line))

\* lsOutput.split('\n').find(name => name.endsWith('.app')): index of the
\* first entry of the volume whose name ends in .app, 0 when there is none
FindAppBundle(volume) ==
    LET apps == {i \in 1..Len(volume) : EndsWith(volume[i].name, AppSuffix)}
    IN  IF apps = {} THEN 0 ELSE Min(apps)

----------------------------------------------------------------------------
(* getFirefoxVersion *)

\* what running "<binary> --version" can give: stdout as tokens, or a
\* rejection of execAsync (spawn error, timeout, or a non-zero exit, whatever
\* was printed before it)
ProbeOutcomes ==
    { [rejects |-> FALSE, stdout |-> <<"Mozilla", "Firefox", "147.0">>],
      [rejects |-> FALSE, stdout |-> <<"usage">>],
      [rejects |-> TRUE, stdout |-> <<>>],
      [rejects |-> TRUE, stdout |-> <<"Mozilla", "Firefox", "147.0">>] }

\* mutant of VersionOf: no 'unknown' in place of null
VersionOfNoDefault(out) ==
    IF out.rejects \/ Len(out.stdout) < 2 THEN "" ELSE out.stdout[Len(out.stdout)]

\* stdout.match(/Firefox\s+(\S+)/): the token after the first "Firefox",
\* "" (null) when there is none or execAsync rejected
getFirefoxVersion(out) ==
    LET at == {i \in 1..(Len(out.stdout) - 1) : out.stdout[i] = "Firefox"}
    IN  IF out.rejects \/ at = {} THEN "" ELSE out.stdout[Min(at) + 1]

\* getFirefoxVersion(binaryPath) || 'unknown'
VersionOf(out) ==
    IF getFirefoxVersion(out) = "" THEN "unknown" ELSE getFirefoxVersion(out)

----------------------------------------------------------------------------
(* downloadFirefox: one invocation per caller, one action per step between  *)
(* awaits                                                                   *)

Platforms == {"darwin", "linux", "win32"}

Idle ==
    [pc |-> "idle", url |-> <<>>, force |-> FALSE, log |-> <<>>,
     outcome |-> "none", detail |-> "", result |-> NoEntry,
     before |-> NoFile, dirBefore |-> NoDir, mountsBefore |-> {},
     response |-> "", attached |-> FALSE,
     probed |-> [rejects |-> FALSE, stdout |-> <<>>], body |-> NoBody,
     binaryPath |-> NotFound, pending |-> "", mountPoint |-> <<>>,
     image |-> NoBody, appBundle |-> 0]

Hash(p) == urlHash(inv[p].url)
Name(p) == archiveName(inv[p].url)

\* the invocation after throwing: kind is the error, detail what raised it
Thrown(i, kind, detail, steps) ==
    [i EXCEPT !.pc = "failed", !.outcome = kind, !.detail = detail,
              !.log = i.log \o steps]

\* mutant of Call: a call waits while another invocation for the same URL
\* is running, as it would behind a lock on the cache key
CallLocked(p, url, force) ==
    /\ inv[p].pc = "idle"
    /\ calls < MaxCalls
    /\ \A q \in DOMAIN inv \ {p} : inv[q].pc = "idle" \/ inv[q].url # url
    /\ LET h == urlHash(url)
           file == cacheFile[h]
           started == [Idle EXCEPT !.url = url, !.force = force,
                                   !.before = file,
                                   !.dirBefore = extracted[h],
                                   !.mountsBefore = mounted]
       IN  inv' = [inv EXCEPT ![p] =
                     IF CacheHit(force, file, extracted)
                     THEN [started EXCEPT !.pc = "done", !.outcome = "ok",
                                          !.result = file.entry,
                                          !.log = <<"hit">>]
                     ELSE [started EXCEPT !.pc = "fetch"]]
    /\ calls' = calls + 1
    /\ UNCHANGED <<platform, cacheFile, downloads, extracted, mounted, loc>>

\* lines 19-44: the call up to the first await: the cache check
Call(p, url, force) ==
    /\ inv[p].pc = "idle"
    /\ calls < MaxCalls
    /\ LET h == urlHash(url)
           file == cacheFile[h]
           started == [Idle EXCEPT !.url = url, !.force = force,
                                   !.before = file,
                                   !.dirBefore = extracted[h],
                                   !.mountsBefore = mounted]
       IN  inv' = [inv EXCEPT ![p] =
                     IF CacheHit(force, file, extracted)
                     THEN [started EXCEPT !.pc = "done", !.outcome = "ok",
                                          !.result = file.entry,
                                          !.log = <<"hit">>]
                     ELSE [started EXCEPT !.pc = "fetch"]]
    /\ calls' = calls + 1
    /\ UNCHANGED <<platform, cacheFile, downloads, extracted, mounted, loc>>

FetchFailures == {"network", "status", "stream"}

\* lines 62-66: mkdirSync(extractDir) unless it exists
EnsureDir(dir) == IF dir.ok THEN dir ELSE SomeDir(<<>>)

\* mutant of FetchFails: response.ok is not tested, the body of an error
\* response is written and extracted like any other
FetchFailsStatusUnchecked(p, how) ==
    /\ inv[p].pc = "fetch"
    /\ how \in FetchFailures
    /\ downloads' = IF how = "network" THEN downloads
                    ELSE [downloads EXCEPT ![Name(p)] = PartialBody]
    /\ extracted' = IF how = "status"
                    THEN [extracted EXCEPT ![Hash(p)] = EnsureDir(@)]
                    ELSE extracted
    /\ inv' = [inv EXCEPT ![p] =
                 IF how = "status"
                 THEN [@ EXCEPT !.response = how, !.log = @ \o <<"fetch">>,
                                !.pc = IF IsDmg(Name(p)) THEN "mount"
                                       ELSE "untar"]
                 ELSE Thrown([@ EXCEPT !.response = how], "DownloadError", how,
                             <<"fetch">>)]
    /\ UNCHANGED <<platform, cacheFile, mounted, calls, loc>>

\* lines 50-60, the failing paths: fetch rejects, response.ok is false, or the
\* pipeline rejects after createWriteStream has opened the file
FetchFails(p, how) ==
    /\ inv[p].pc = "fetch"
    /\ how \in FetchFailures
    /\ inv' = [inv EXCEPT ![p] =
                 Thrown([inv[p] EXCEPT !.response = how], "DownloadError", how,
                        <<"fetch">>)]
    /\ downloads' = IF how = "stream"
                    THEN [downloads EXCEPT ![Name(p)] = PartialBody]
                    ELSE downloads
    /\ UNCHANGED <<platform, cacheFile, extracted, mounted, calls, loc>>

\* lines 50-89, the download succeeding: the body is written, the extraction
\* directory made, and the extraction dispatched on the suffix
FetchOk(p, body) ==
    /\ inv[p].pc = "fetch"
    /\ body \in Served(inv[p].url)
    /\ downloads' = [downloads EXCEPT ![Name(p)] = body]
    /\ extracted' = [extracted EXCEPT ![Hash(p)] = EnsureDir(@)]
    /\ LET branch == ExtractBranch(Name(p))
           fetched == [inv[p] EXCEPT !.log = @ \o <<"fetch">>,
                                     !.response = "ok", !.body = body]
       IN  inv' = [inv EXCEPT ![p] =
                     IF branch = "tar" THEN [fetched EXCEPT !.pc = "untar"]
                     ELSE IF branch = "dmg" THEN [fetched EXCEPT !.pc = "mount"]
                     ELSE Thrown(fetched, "ExtractionError", "unsupported", <<>>)]
    /\ UNCHANGED <<platform, cacheFile, mounted, calls, loc>>

\* mutant of Untar: a rejection of tar.extract is not propagated
UntarErrorSwallowed(p) ==
    /\ inv[p].pc = "untar"
    /\ LET body == downloads[Name(p)]
           readable == body # NoBody /\ Bodies[body].kind = "tar"
                       /\ extracted[Hash(p)].ok
       IN  /\ extracted' =
                 IF readable
                 THEN [extracted EXCEPT ![Hash(p)] =
                          SomeDir(Merge(@.list, Bodies[body].list))]
                 ELSE extracted
           /\ inv' = [inv EXCEPT ![p] =
                        [@ EXCEPT !.pc = "locate", !.log = @ \o <<"untar">>]]
    /\ UNCHANGED <<platform, cacheFile, downloads, mounted, calls, loc>>

\* lines 71-80: tar.extract({file: downloadPath, cwd: extractDir}) settles
Untar(p) ==
    /\ inv[p].pc = "untar"
    /\ LET body == downloads[Name(p)]
           readable == body # NoBody /\ Bodies[body].kind = "tar"
                       /\ extracted[Hash(p)].ok
       IN  /\ extracted' =
                 IF readable
                 THEN [extracted EXCEPT ![Hash(p)] =
                          SomeDir(Merge(@.list, Bodies[body].list))]
                 ELSE extracted
           /\ inv' = [inv EXCEPT ![p] =
                        IF readable /\ Bodies[body].ok
                        THEN [@ EXCEPT !.pc = "locate", !.log = @ \o <<"untar">>]
                        ELSE Thrown(@, "ExtractionError", "tar", <<"untar">>)]
    /\ UNCHANGED <<platform, cacheFile, downloads, mounted, calls, loc>>

----------------------------------------------------------------------------
(* extractDmg *)

\* lines 239-250: hdiutil attach settles and its output is parsed. hdiutil
\* exists on darwin only; the throw for an unparseable output is outside the
\* try/finally
Mount(p) ==
    /\ inv[p].pc = "mount"
    /\ LET body == downloads[Name(p)]
           attached == /\ platform = "darwin"
                       /\ body # NoBody
                       /\ Bodies[body].kind = "dmg"
                       /\ Bodies[body].attach # <<>>
           mountMatch == IF attached THEN MountMatch(Bodies[body].attach)
                         ELSE <<>>
       IN  /\ mounted' = IF attached THEN mounted \cup {Name(p)} ELSE mounted
           /\ inv' = [inv EXCEPT ![p] =
                        IF ~attached
                        THEN Thrown(@, "ExtractionError", "attach", <<"mount">>)
                        ELSE IF mountMatch = <<>>
                        THEN Thrown([@ EXCEPT !.attached = TRUE],
                                    "ExtractionError", "mountPoint", <<"mount">>)
                        ELSE [@ EXCEPT !.pc = "ls", !.mountPoint = mountMatch,
                                       !.image = body, !.attached = TRUE,
                                       !.log = @ \o <<"mount">>]]
    /\ UNCHANGED <<platform, cacheFile, downloads, extracted, calls, loc>>

\* lines 254-261: ls of the mount point settles; the bundle is looked for
Ls(p, lsOk) ==
    /\ inv[p].pc = "ls"
    /\ lsOk \in BOOLEAN
    /\ LET appBundle == FindAppBundle(Bodies[inv[p].image].list)
           listed == [inv[p] EXCEPT !.log = @ \o <<"ls">>]
       IN  inv' = [inv EXCEPT ![p] =
                     IF ~(lsOk /\ Name(p) \in mounted)
                     THEN [listed EXCEPT !.pc = "detach", !.pending = "ls"]
                     ELSE IF appBundle = 0
                     THEN [listed EXCEPT !.pc = "detach", !.pending = "noApp"]
                     ELSE [listed EXCEPT !.pc = "cp", !.appBundle = appBundle]]
    /\ UNCHANGED <<platform, cacheFile, downloads, extracted, mounted, calls,
                   loc>>

CpOutcomes == {"copied", "nothing", "partial"}

\* what a cp -R that fails half way leaves of an entry: a directory without
\* its content, or nothing of a file
Started(entry) == IF entry.kind = "dir" THEN <<Dir(entry.name, <<>>)>> ELSE <<>>

\* lines 263-264: cp -R "<mountPoint>/<appBundle>" "<extractDir>/" settles
Cp(p, how) ==
    /\ inv[p].pc = "cp"
    /\ how \in CpOutcomes
    /\ LET entry == Bodies[inv[p].image].list[inv[p].appBundle]
           dir == extracted[Hash(p)]
           copies == how = "copied" /\ dir.ok /\ Name(p) \in mounted
           written == IF ~dir.ok \/ Name(p) \notin mounted \/ how = "nothing"
                        THEN <<>>
                      ELSE IF how = "copied" THEN <<entry>>
                      ELSE Started(entry)
       IN  /\ extracted' = IF dir.ok
                           THEN [extracted EXCEPT ![Hash(p)] =
                                    SomeDir(Merge(dir.list, written))]
                           ELSE extracted
           /\ inv' = [inv EXCEPT ![p] =
                        [@ EXCEPT !.pc = "detach",
                                  !.pending = IF copies THEN "" ELSE "copy",
                                  !.log = @ \o <<"cp">>]]
    /\ UNCHANGED <<platform, cacheFile, downloads, mounted, calls, loc>>

\* lines 265-274: the finally block: hdiutil detach settles, a failure is
\* logged; then the pending error, if any, is rethrown
Detach(p, detachOk) ==
    /\ inv[p].pc = "detach"
    /\ detachOk \in BOOLEAN
    /\ mounted' = IF detachOk THEN mounted \ {Name(p)} ELSE mounted
    /\ LET step == IF detachOk THEN <<"detach">> ELSE <<"detach", "detachWarn">>
       IN  inv' = [inv EXCEPT ![p] =
                     IF @.pending # ""
                     THEN Thrown(@, "ExtractionError", @.pending, step)
                     ELSE [@ EXCEPT !.pc = "locate", !.log = @ \o step]]
    /\ UNCHANGED <<platform, cacheFile, downloads, extracted, calls, loc>>

----------------------------------------------------------------------------
(* locate, chmod, version probe, cache write *)

\* mutant of Locate: the result of findFirefoxBinary is not tested
LocateUnchecked(p, chmodOk) ==
    /\ inv[p].pc = "locate"
    /\ chmodOk \in BOOLEAN
    /\ inv' = [inv EXCEPT ![p] =
                 [@ EXCEPT !.pc = "probe",
                           !.binaryPath =
                               findFirefoxBinary(platform, extracted[Hash(p)]),
                           !.log = @ \o <<"locate",
                               IF chmodOk THEN "chmod" ELSE "chmodWarn">>]]
    /\ UNCHANGED <<platform, cacheFile, downloads, extracted, mounted, calls,
                   loc>>

\* lines 91-103: findFirefoxBinary settles; null throws, a path is chmod-ed
\* (a chmod failure is logged)
Locate(p, chmodOk) ==
    /\ inv[p].pc = "locate"
    /\ chmodOk \in BOOLEAN
    /\ LET binaryPath == findFirefoxBinary(platform, extracted[Hash(p)])
       IN  inv' = [inv EXCEPT ![p] =
                     IF binaryPath = NotFound
                     THEN Thrown(@, "BinaryNotFound", "", <<"locate">>)
                     ELSE [@ EXCEPT !.pc = "probe", !.binaryPath = binaryPath,
                                    !.log = @ \o <<"locate",
                                        IF chmodOk THEN "chmod" ELSE "chmodWarn">>]]
    /\ UNCHANGED <<platform, cacheFile, downloads, extracted, mounted, calls,
                   loc>>

\* lines 108-112: the result of an invocation that located binaryPath
Result(h, binaryPath, version) ==
    [binaryPath |-> PathIn(h, binaryPath), version |-> version,
     extractPath |-> PathIn(h, <<>>)]

\* lines 105-118: getFirefoxVersion settles; the result is written to the
\* cache file and returned
Probe(p, out) ==
    /\ inv[p].pc = "probe"
    /\ out \in ProbeOutcomes
    /\ LET result == Result(Hash(p), inv[p].binaryPath, VersionOf(out))
       IN  /\ cacheFile' = [cacheFile EXCEPT ![Hash(p)] = Stringify(result)]
           /\ inv' = [inv EXCEPT ![p] =
                        [@ EXCEPT !.pc = "done", !.outcome = "ok",
                                  !.result = result, !.probed = out,
                                  !.log = @ \o <<"probe", "write">>]]
    /\ UNCHANGED <<platform, downloads, extracted, mounted, calls, loc>>

\* the caller takes the result or the error
Return(p) ==
    /\ inv[p].pc \in {"done", "failed"}
    /\ inv' = [inv EXCEPT ![p] = Idle]
    /\ UNCHANGED <<platform, cacheFile, downloads, extracted, mounted, calls,
                   loc>>

----------------------------------------------------------------------------
(* The environment, between invocations: files are removed or damaged *)

Quiet == \A p \in DOMAIN inv : inv[p].pc = "idle"

EnvRemoveExtracted(h) ==
    /\ Quiet
    /\ extracted[h].ok
    /\ extracted' = [extracted EXCEPT ![h] = NoDir]
    /\ UNCHANGED <<platform, cacheFile, downloads, mounted, inv, calls, loc>>

RECURSIVE Remove(_, _)
\* the listing without the entry at path
Remove(listing, path) ==
    LET i == IndexOf(listing, Head(path))
    IN  IF i = 0 THEN listing
        ELSE IF Len(path) = 1
          THEN [j \in 1..(Len(listing) - 1) |->
                   IF j < i THEN listing[j] ELSE listing[j + 1]]
        ELSE [listing EXCEPT ![i].kids = Remove(@, Tail(path))]

\* the binary a cache entry names is removed, the rest of the tree stays
EnvRemoveBinary(h) ==
    /\ Quiet
    /\ cacheFile[h].state = "json"
    /\ PathExists(extracted, cacheFile[h].entry.binaryPath)
    /\ extracted' = [extracted EXCEPT ![h] =
                        SomeDir(Remove(@.list, cacheFile[h].entry.binaryPath.rel))]
    /\ UNCHANGED <<platform, cacheFile, downloads, mounted, inv, calls, loc>>

EnvDamageCache(h, file) ==
    /\ Quiet
    /\ cacheFile[h].state = "json"
    /\ file \in {NoFile, Garbage, EmptyObject}
    /\ cacheFile' = [cacheFile EXCEPT ![h] = file]
    /\ UNCHANGED <<platform, downloads, extracted, mounted, inv, calls, loc>>

----------------------------------------------------------------------------
(* Specification of the download pipeline, one caller *)

NoLoc == [pc |-> "off", tree |-> <<>>, found |-> NotFound]

InitFiles ==
    /\ cacheFile = [h \in Hashes |-> NoFile]
    /\ downloads = [n \in ArchiveNames |-> NoBody]
    /\ extracted = [h \in Hashes |-> NoDir]
    /\ mounted = {}
    /\ calls = 0

Init ==
    /\ platform \in Platforms
    /\ InitFiles
    /\ inv = [p \in {1} |-> Idle]
    /\ loc = NoLoc

Next ==
    \/ \E p \in DOMAIN inv, i \in 1..Len(Urls), force \in BOOLEAN :
          Call(p, Urls[i], force)
    \/ \E p \in DOMAIN inv, how \in FetchFailures : FetchFails(p, how)
    \/ \E p \in DOMAIN inv, body \in 1..Len(Bodies) : FetchOk(p, body)
    \/ \E p \in DOMAIN inv : Untar(p)
    \/ \E p \in DOMAIN inv : Mount(p)
    \/ \E p \in DOMAIN inv, lsOk \in BOOLEAN : Ls(p, lsOk)
    \/ \E p \in DOMAIN inv, how \in CpOutcomes : Cp(p, how)
    \/ \E p \in DOMAIN inv, detachOk \in BOOLEAN : Detach(p, detachOk)
    \/ \E p \in DOMAIN inv, chmodOk \in BOOLEAN : Locate(p, chmodOk)
    \/ \E p \in DOMAIN inv, out \in ProbeOutcomes : Probe(p, out)
    \/ \E p \in DOMAIN inv : Return(p)
    \/ \E h \in Hashes : EnvRemoveExtracted(h)
    \/ \E h \in Hashes : EnvRemoveBinary(h)
    \/ \E h \in Hashes, file \in {NoFile, Garbage, EmptyObject} :
          EnvDamageCache(h, file)

Spec == Init /\ [][Next]_vars

----------------------------------------------------------------------------
(* Specification of the locator alone: findFirefoxBinary applied to every   *)
(* extraction tree of a bounded family                                      *)

\* the listings of at most n entries of S, no name twice, in every order
Listings(S, n) ==
    UNION {{l \in [1..k -> S] :
               \A i, j \in 1..k : i # j => l[i].name # l[j].name} : k \in 0..n}

FooAppName == <<"Foo", ".app">>
BarAppName == <<"Bar", ".app">>

MacOSEntries ==
    {File(<<"firefox">>), File(<<"firefox-bin">>), File(<<"XUL">>)}

BundleContents ==
    {<<>>, <<Dir(<<"Contents">>, <<File(<<"MacOS">>)>>)>>}
    \cup {<<Dir(<<"Contents">>, <<Dir(<<"MacOS">>, m)>>)>> :
             m \in Listings(MacOSEntries, MaxMacOS)}

FlatDirs ==
    {Dir(<<"firefox">>, l) :
        l \in Listings({File(<<"firefox">>), File(<<"firefox-bin">>)}, 2)}

NestedDirs ==
    {Dir(<<"Foo">>, l) :
        l \in {<<>>, FlatTree,
               <<BundleOf(FooAppName, <<File(<<"firefox">>)>>)>>,
               <<Dir(<<"firefox">>, <<File(<<"firefox-bin">>)>>)>>}}

TopEntries ==
    {Dir(FooAppName, c) : c \in BundleContents}
    \cup {BundleOf(BarAppName, <<File(<<"firefox">>)>>),
          BundleOf(BarAppName, <<File(<<"XUL">>)>>),
          BundleOf(BarAppName, <<>>),
          File(FooAppName), File(<<"firefox">>)}
    \cup FlatDirs
    \cup NestedDirs

Trees == Listings(TopEntries, MaxTop)

InitLocate ==
    /\ platform \in Platforms
    /\ InitFiles
    /\ inv = [p \in {1} |-> Idle]
    /\ loc \in {[pc |-> "ready", tree |-> t, found |-> NotFound] : t \in Trees}

\* findFirefoxBinary(extractDir) is called on the tree and settles
LocateTree ==
    /\ loc.pc = "ready"
    /\ loc' = [loc EXCEPT !.pc = "done",
                          !.found = findFirefoxBinary(platform, SomeDir(loc.tree))]
    /\ UNCHANGED <<platform, cacheFile, downloads, extracted, mounted, inv,
                   calls>>

NextLocate == LocateTree

SpecLocate == InitLocate /\ [][NextLocate]_vars

----------------------------------------------------------------------------
(* C9, C10: the locator *)

FlatBinary == <<<<"firefox">>, <<"firefox">>>>
FooBin == <<FooAppName, <<"Contents">>, <<"MacOS">>, <<"firefox-bin">>>>
FooFirefox == <<FooAppName, <<"Contents">>, <<"MacOS">>, <<"firefox">>>>

\* C9: on linux, for every tree holding firefox/firefox directly under the
\* extraction directory, whatever else it holds, the locator returns exactly
\* firefox/firefox
C9_FlatLayoutFound ==
    (loc.pc = "done" /\ platform = "linux" /\ Exists(loc.tree, FlatBinary))
        => loc.found = FlatBinary

\* a tree with firefox/firefox and firefox/firefox-bin (the latter listed
\* first), with a bundle beside it, located on linux
C9_Witness ==
    /\ loc.pc = "done"
    /\ platform = "linux"
    /\ Exists(loc.tree, FlatBinary)
    /\ Exists(loc.tree, <<<<"firefox">>, <<"firefox-bin">>>>)
    /\ ReadDir(loc.tree, <<<<"firefox">>>>).list[1].name = <<"firefox-bin">>
    /\ Len(loc.tree) = 2
    /\ loc.tree[1].name = FooAppName
    /\ loc.found = FlatBinary

\* C10 as stated: on darwin, for every tree holding
\* Foo.app/Contents/MacOS/firefox-bin the locator returns that path
C10_Original ==
    (loc.pc = "done" /\ platform = "darwin" /\ Exists(loc.tree, FooBin))
        => loc.found = FooBin

\* whether the top-level entry e is a bundle in which some executable can be
\* found: a directory named *.app whose Contents/MacOS exists and holds a
\* known executable name or is a directory holding a regular file
YieldsExecutable(e) ==
    /\ e.kind = "dir"
    /\ EndsWith(e.name, ".app")
    /\ Exists(<<e>>, <<e.name, <<"Contents">>, <<"MacOS">>>>)
    /\ \/ \E k \in 1..Len(ExecutableNames) :
             Exists(<<e>>, <<e.name, <<"Contents">>, <<"MacOS">>,
                             ExecutableNames[k]>>)
       \/ LET d == ReadDir(<<e>>, <<e.name, <<"Contents">>, <<"MacOS">>>>)
          IN  d.ok /\ \E k \in 1..Len(d.list) : d.list[k].kind = "file"

\* C10 amended: on darwin, for every tree holding
\* Foo.app/Contents/MacOS/firefox-bin at its top level, the locator returns
\* that path provided Foo.app/Contents/MacOS has no entry named firefox and no
\* bundle listed before Foo.app yields an executable, whatever non-bundle
\* directories (one named Foo included) the tree holds and wherever they are
\* listed; in any case the path returned lies in a top-level bundle, so
\* bundles are examined before any non-bundle directory is recursed into
C10_BundleLayoutFound ==
    (loc.pc = "done" /\ platform = "darwin" /\ Exists(loc.tree, FooBin))
        => /\ loc.found # NotFound
           /\ EndsWith(loc.found[1], ".app")
           /\ (/\ ~Exists(loc.tree, FooFirefox)
               /\ \A j \in 1..(IndexOf(loc.tree, FooAppName) - 1) :
                     ~YieldsExecutable(loc.tree[j]))
                 => loc.found = FooBin

\* a non-bundle directory Foo holding a binary is listed before Foo.app, and
\* the locator on darwin returned Foo.app/Contents/MacOS/firefox-bin
C10_Witness ==
    /\ loc.pc = "done"
    /\ platform = "darwin"
    /\ Len(loc.tree) = 2
    /\ loc.tree[1].name = <<"Foo">>
    /\ Exists(loc.tree, <<<<"Foo">>, <<"firefox">>, <<"firefox">>>>)
    /\ loc.tree[2].name = FooAppName
    /\ Exists(loc.tree, FooBin)
    /\ ~Exists(loc.tree, FooFirefox)
    /\ loc.found = FooBin

----------------------------------------------------------------------------
(* C1 - C8: the download pipeline *)

Has(log, step) == \E k \in 1..Len(log) : log[k] = step

Callers == DOMAIN inv
Running(p) == inv[p].pc # "idle"
Finished(p) == inv[p].pc \in {"done", "failed"}

\* when invocation i was called, the cache file of its URL held an entry
\* whose binaryPath existed
IntactAtCall(i) ==
    /\ i.before.state = "json"
    /\ i.before.entry.binaryPath.dir = urlHash(i.url)
    /\ i.dirBefore.ok
    /\ Exists(i.dirBefore.list, i.before.entry.binaryPath.rel)

\* invocation i ran one of the extraction tools
Extracts(i) == Has(i.log, "untar") \/ Has(i.log, "mount")

\* C1: an invocation with forceDownload=false, called while the cache file
\* holds the entry recorded by an earlier successful invocation and the
\* recorded binaryPath exists, returns exactly that entry and runs no fetch,
\* no extraction and no cache write: the cache file and the extraction
\* directory are as they were
C1_CacheHitReturnsRecorded ==
    \A p \in Callers :
        (Running(p) /\ ~inv[p].force /\ IntactAtCall(inv[p]))
            => /\ inv[p].pc = "done"
               /\ inv[p].outcome = "ok"
               /\ inv[p].result = inv[p].before.entry
               /\ inv[p].log = <<"hit">>
               /\ cacheFile[Hash(p)] = inv[p].before
               /\ extracted[Hash(p)] = inv[p].dirBefore

\* the second call, not forced, returned the entry the first one recorded
C1_Witness ==
    /\ calls = 2
    /\ inv[1].pc = "done"
    /\ ~inv[1].force
    /\ inv[1].log = <<"hit">>
    /\ inv[1].result.version = "147.0"
    /\ inv[1].result = cacheFile[Hash(1)].entry

\* C2: an invocation with forceDownload=true never returns the cached entry,
\* whatever the cache file and the extraction directory held when it was
\* called: it runs the fetch; when the fetch succeeds and the suffix is a
\* supported one it runs the extraction; and when it succeeds it has fetched,
\* extracted and written, and the cache file holds its result
C2_ForceAlwaysRefetches ==
    \A p \in Callers :
        (Running(p) /\ inv[p].force)
            => /\ ~Has(inv[p].log, "hit")
               /\ inv[p].pc = "fetch" \/ Has(inv[p].log, "fetch")
               /\ (/\ Finished(p)
                   /\ inv[p].response = "ok"
                   /\ ExtractBranch(Name(p)) # "unsupported")
                     => Extracts(inv[p])
               /\ inv[p].pc = "done"
                     => /\ Has(inv[p].log, "fetch")
                        /\ Extracts(inv[p])
                        /\ Has(inv[p].log, "write")
                        /\ cacheFile[Hash(p)] = Stringify(inv[p].result)

\* a forced call made on an intact cache succeeded with a result other than
\* the cached one, which it overwrote
C2_Witness ==
    /\ inv[1].pc = "done"
    /\ inv[1].force
    /\ IntactAtCall(inv[1])
    /\ inv[1].result # inv[1].before.entry
    /\ cacheFile[Hash(1)].entry = inv[1].result

\* C3: when the response has a non-success status the invocation fails with a
\* download error, having run nothing but the fetch, and the cache file and
\* the extraction directory are as they were before it
C3_BadStatusFailsNoCache ==
    \A p \in Callers :
        inv[p].response = "status"
            => /\ inv[p].pc = "failed"
               /\ inv[p].outcome = "DownloadError"
               /\ inv[p].log = <<"fetch">>
               /\ inv[p].result = NoEntry
               /\ cacheFile[Hash(p)] = inv[p].before
               /\ extracted[Hash(p)] = inv[p].dirBefore

\* a forced call on an intact cache got a non-success status: the entry is
\* still there
C3_Witness ==
    /\ inv[1].response = "status"
    /\ inv[1].pc = "failed"
    /\ inv[1].force
    /\ cacheFile[Hash(1)].state = "json"

\* C4 as stated: once hdiutil attach has succeeded, every exit of the
\* invocation has attempted a detach
C4_UnmountOnEveryExit ==
    \A p \in Callers :
        (Finished(p) /\ inv[p].attached) => Has(inv[p].log, "detach")

\* C5: with forceDownload=false the cached entry is returned only if its
\* binaryPath existed when the cache was read; a cache file that does not
\* parse, has no binaryPath, or names a missing binary is a miss: the
\* invocation goes on to the fetch and does not fail on the cache
C5_StaleCacheIsMiss ==
    \A p \in Callers :
        /\ Has(inv[p].log, "hit") => IntactAtCall(inv[p])
        /\ (/\ Running(p)
            /\ ~inv[p].force
            /\ inv[p].before.state # "absent"
            /\ ~IntactAtCall(inv[p]))
              => /\ inv[p].pc = "fetch" \/ Has(inv[p].log, "fetch")
                 /\ inv[p].pc = "done" => Has(inv[p].log, "write")

\* the cache file named a binary that was gone from the extraction
\* directory: the call, not forced, downloaded again and succeeded
C5_Witness ==
    /\ inv[1].pc = "done"
    /\ ~inv[1].force
    /\ inv[1].before.state = "json"
    /\ inv[1].dirBefore.ok
    /\ ~Exists(inv[1].dirBefore.list, inv[1].before.entry.binaryPath.rel)
    /\ Has(inv[1].log, "fetch")
    /\ Has(inv[1].log, "write")

\* C6: when findFirefoxBinary returns null on the extraction tree the
\* invocation fails with a binary-not-found error: no result, no version
\* probe, no cache write; and that is the only way it fails so
C6_NotFoundFails ==
    \A p \in Callers :
        /\ (/\ Has(inv[p].log, "locate")
            /\ findFirefoxBinary(platform, extracted[Hash(p)]) = NotFound)
              => /\ inv[p].pc = "failed"
                 /\ inv[p].outcome = "BinaryNotFound"
                 /\ inv[p].result = NoEntry
                 /\ ~Has(inv[p].log, "probe")
                 /\ ~Has(inv[p].log, "write")
                 /\ cacheFile[Hash(p)] = inv[p].before
        /\ inv[p].outcome = "BinaryNotFound"
              => findFirefoxBinary(platform, extracted[Hash(p)]) = NotFound

\* an archive without a binary was extracted and the invocation failed
C6_Witness ==
    /\ inv[1].pc = "failed"
    /\ inv[1].outcome = "BinaryNotFound"
    /\ Has(inv[1].log, "untar")
    /\ extracted[Hash(1)].list # <<>>

\* C7: when the archive name ends in no supported suffix the invocation never
\* succeeds, runs nothing after the fetch and leaves the cache file as it
\* was; when the fetch succeeds it fails with the unsupported-format error
C7_UnsupportedFormatFails ==
    \A p \in Callers :
        (Running(p) /\ ~IsTarball(Name(p)) /\ ~IsDmg(Name(p)))
            => /\ inv[p].pc \in {"fetch", "failed"}
               /\ inv[p].log \in {<<>>, <<"fetch">>}
               /\ cacheFile[Hash(p)] = inv[p].before
               /\ inv[p].response = "ok"
                     => /\ inv[p].pc = "failed"
                        /\ inv[p].outcome = "ExtractionError"
                        /\ inv[p].detail = "unsupported"

\* a .zip was downloaded and refused
C7_Witness ==
    /\ inv[1].pc = "failed"
    /\ EndsWith(Name(1), ".zip")
    /\ inv[1].response = "ok"
    /\ inv[1].detail = "unsupported"
    /\ downloads[Name(1)] # NoBody

\* C8 as stated: when the attach output holds no volume path the invocation
\* fails with the mount error, the extraction directory holds nothing this
\* invocation copied, and no mount is left
C8_UnparseableMountLeavesNothing ==
    \A p \in Callers :
        (inv[p].attached /\ inv[p].mountPoint = <<>>)
            => /\ inv[p].pc = "failed"
               /\ inv[p].outcome = "ExtractionError"
               /\ inv[p].detail = "mountPoint"
               /\ extracted[Hash(p)] = EnsureDir(inv[p].dirBefore)
               /\ Name(p) \notin mounted

----------------------------------------------------------------------------
(* C11: the failures that are only logged *)

\* the version probe of invocation i failed: execAsync rejected, or its
\* output holds no "Firefox <token>"
ProbeFailed(i) ==
    \/ i.probed.rejects
    \/ ~\E k \in 1..(Len(i.probed.stdout) - 1) : i.probed.stdout[k] = "Firefox"

\* C11: a cache file that cannot be read, a chmod failure, a detach failure
\* and a version-probe failure do not abort the invocation: once download,
\* extraction and locate have succeeded it ends with a result that the cache
\* file holds; a detach failure leaves the outcome of the extraction to the
\* error pending before it, if any; and a failed version probe gives the
\* version "unknown", a successful one the token printed
C11_WarningsDoNotAbort ==
    \A p \in Callers :
        /\ (Finished(p) /\ ~Has(inv[p].log, "hit")
                /\ (Has(inv[p].log, "chmod") \/ Has(inv[p].log, "chmodWarn")))
              => /\ inv[p].pc = "done"
                 /\ inv[p].outcome = "ok"
                 /\ inv[p].result.binaryPath =
                        PathIn(Hash(p), inv[p].binaryPath)
                 /\ inv[p].result.extractPath = PathIn(Hash(p), <<>>)
                 /\ cacheFile[Hash(p)] = Stringify(inv[p].result)
        /\ (Running(p) /\ ~inv[p].force
                /\ inv[p].before.state \in {"garbage", "emptyObject"})
              => inv[p].outcome \in {"none", "ok", "DownloadError",
                                     "ExtractionError", "BinaryNotFound"}
                 /\ (inv[p].pc = "fetch" \/ Has(inv[p].log, "fetch"))
        /\ (Finished(p) /\ Has(inv[p].log, "detachWarn"))
              => (inv[p].pc = "failed" <=> inv[p].pending # "")
        /\ (inv[p].pc = "done" /\ Has(inv[p].log, "probe"))
              => inv[p].result.version =
                    IF ProbeFailed(inv[p]) THEN "unknown"
                    ELSE inv[p].probed.stdout[Len(inv[p].probed.stdout)]

\* a call made on a cache file that did not parse mounted a disk image,
\* failed to detach it, failed to chmod the binary, had the version probe
\* exit non-zero after printing a version, and succeeded with "unknown"
C11_Witness ==
    /\ inv[1].pc = "done"
    /\ ~inv[1].force
    /\ inv[1].before.state = "garbage"
    /\ Has(inv[1].log, "detachWarn")
    /\ Has(inv[1].log, "chmodWarn")
    /\ inv[1].probed.rejects
    /\ inv[1].probed.stdout # <<>>
    /\ inv[1].result.version = "unknown"
    /\ cacheFile[Hash(1)].entry.version = "unknown"

----------------------------------------------------------------------------
(* C12: the pipeline is linear *)

\* the place of a logged step in the order cache check, fetch, extract,
\* locate, version probe, cache write
Stage(step) ==
    CASE step = "hit" -> 0
      [] step = "fetch" -> 1
      [] step \in {"untar", "mount", "ls", "cp", "detach", "detachWarn"} -> 2
      [] step \in {"locate", "chmod", "chmodWarn"} -> 3
      [] step = "probe" -> 4
      [] step = "write" -> 5

Times(log, step) == Cardinality({k \in 1..Len(log) : log[k] = step})

\* the archive invocation p extracted with tar did not extract cleanly
TarFailed(p) ==
    /\ Has(inv[p].log, "untar")
    /\ \/ downloads[Name(p)] = NoBody
       \/ Bodies[downloads[Name(p)]].kind # "tar"
       \/ ~Bodies[downloads[Name(p)]].ok

\* C12: the steps of an invocation run in the order cache check, fetch,
\* extract, locate, version probe, cache write, each at most once; a failed
\* fetch, extraction or locate ends the invocation failed with no later step
\* run; the cache file is written only after fetch, extraction and locate
\* succeeded, and a failed invocation leaves it as it found it
C12_LinearPipeline ==
    \A p \in Callers :
        /\ \A j, k \in 1..Len(inv[p].log) :
              j < k => Stage(inv[p].log[j]) <= Stage(inv[p].log[k])
        /\ \A step \in {"hit", "fetch", "untar", "mount", "ls", "cp", "detach",
                        "locate", "probe", "write"} :
              Times(inv[p].log, step) <= 1
        /\ Has(inv[p].log, "hit") => inv[p].log = <<"hit">>
        /\ inv[p].response \in FetchFailures
              => inv[p].pc = "failed" /\ inv[p].log = <<"fetch">>
        /\ TarFailed(p)
              => /\ inv[p].pc = "failed"
                 /\ inv[p].outcome = "ExtractionError"
                 /\ ~Has(inv[p].log, "locate")
        /\ inv[p].pending # ""
              => /\ inv[p].pc \in {"detach", "failed"}
                 /\ ~Has(inv[p].log, "locate")
        /\ inv[p].pc = "failed"
              => /\ cacheFile[Hash(p)] = inv[p].before
                 /\ inv[p].result = NoEntry
                 /\ ~Has(inv[p].log, "probe")
                 /\ ~Has(inv[p].log, "write")
                 /\ inv[p].outcome = "DownloadError"
                       => inv[p].log = <<"fetch">>
                 /\ inv[p].outcome = "ExtractionError"
                       => ~Has(inv[p].log, "locate")
                 /\ inv[p].outcome = "BinaryNotFound"
                       => inv[p].log[Len(inv[p].log)] = "locate"
        /\ Has(inv[p].log, "write")
              => /\ inv[p].response = "ok"
                 /\ Extracts(inv[p])
                 /\ ~TarFailed(p)
                 /\ inv[p].pending = ""
                 /\ Has(inv[p].log, "locate")
                 /\ inv[p].binaryPath # NotFound
                 /\ Has(inv[p].log, "probe")

\* a forced call on an intact cache downloaded a truncated archive: the
\* extraction failed over a directory that still holds the old binary, and
\* the cache file holds the entry it held before
C12_Witness ==
    /\ inv[1].pc = "failed"
    /\ inv[1].force
    /\ IntactAtCall(inv[1])
    /\ TarFailed(1)
    /\ findFirefoxBinary(platform, extracted[Hash(1)]) # NotFound
    /\ cacheFile[Hash(1)] = inv[1].before

----------------------------------------------------------------------------
(* C13: the extraction directory of a tarball *)

\* C13 as stated: when tar.extract starts, the extraction directory of the
\* URL holds no entry, so that after a clean extraction it holds exactly the
\* content of the archive just downloaded
C13_FreshExtractDir ==
    \A p \in Callers :
        IsTarball(Name(p))
            => /\ inv[p].pc = "untar" => extracted[Hash(p)] = SomeDir(<<>>)
               /\ (Has(inv[p].log, "untar") /\ ~TarFailed(p))
                     => extracted[Hash(p)] = SomeDir(Bodies[inv[p].body].list)

----------------------------------------------------------------------------
(* Specification of two callers sharing one cache directory *)

InitRace ==
    /\ platform \in Platforms
    /\ InitFiles
    /\ inv = [p \in {1, 2} |-> Idle]
    /\ loc = NoLoc

\* each caller makes one call; the steps of the two invocations interleave
\* at their awaits
NextRace ==
    \/ \E p \in DOMAIN inv, i \in 1..Len(Urls), force \in BOOLEAN :
          Call(p, Urls[i], force)
    \/ \E p \in DOMAIN inv, how \in FetchFailures : FetchFails(p, how)
    \/ \E p \in DOMAIN inv, body \in 1..Len(Bodies) : FetchOk(p, body)
    \/ \E p \in DOMAIN inv : Untar(p)
    \/ \E p \in DOMAIN inv : Mount(p)
    \/ \E p \in DOMAIN inv, lsOk \in BOOLEAN : Ls(p, lsOk)
    \/ \E p \in DOMAIN inv, how \in CpOutcomes : Cp(p, how)
    \/ \E p \in DOMAIN inv, detachOk \in BOOLEAN : Detach(p, detachOk)
    \/ \E p \in DOMAIN inv, chmodOk \in BOOLEAN : Locate(p, chmodOk)
    \/ \E p \in DOMAIN inv, out \in ProbeOutcomes : Probe(p, out)

SpecRace == InitRace /\ [][NextRace]_vars

----------------------------------------------------------------------------
(* C14: no lock *)

\* C14: downloadFirefox takes no lock: a call for a URL is never held back by
\* an invocation for the same URL and cache directory that is still running,
\* whatever step that one is at, and the cache write of a running invocation
\* is never held back by the other one; so two invocations can both be past
\* the cache check and write the same download file, extraction directory
\* and cache file
C14_NoLock ==
    \A p \in Callers :
        /\ (inv[p].pc = "idle" /\ calls < MaxCalls)
              => \A i \in 1..Len(Urls), force \in BOOLEAN :
                    ENABLED Call(p, Urls[i], force)
        /\ inv[p].pc = "probe"
              => \A out \in ProbeOutcomes : ENABLED Probe(p, out)

\* both callers passed the cache check for the same URL; caller 1 downloaded
\* an archive holding firefox/firefox, caller 2 then wrote another archive
\* to the same download file and is still extracting it; caller 1 extracted
\* what caller 2 had written and failed to find a binary
C14_Witness ==
    /\ platform = "linux"
    /\ inv[1].url = inv[2].url
    /\ IsTarball(Name(1))
    /\ inv[1].body # NoBody
    /\ Bodies[inv[1].body].list = FlatTree
    /\ inv[2].body # NoBody
    /\ inv[2].body # inv[1].body
    /\ downloads[Name(1)] = inv[2].body
    /\ inv[2].pc = "untar"
    /\ inv[1].pc = "failed"
    /\ inv[1].outcome = "BinaryNotFound"
    /\ extracted[Hash(1)] = SomeDir(Bodies[inv[2].body].list)

====
